---- MODULE Spec2Model ----
(***************************************************************************)
(* The approximate LRU engine of simplelru/lru.go as a state machine.      *)
(*                                                                         *)
(* The state is the LRU struct (items, data, counter, size) plus what a    *)
(* caller observes of the last call: the call itself, its return value,    *)
(* the eviction callbacks it fired and whether it panicked.  The rng is    *)
(* modelled by nondeterministic choice of every value it hands out.        *)
(* Go slice indices are kept 0-based; data is a sequence read through At.  *)
(***************************************************************************)
EXTENDS Integers, Sequences, FiniteSets, TLC

\* ------------------------------------------------------------------ bounds
MaxKey == 2          \* keys are 0..MaxKey; 0 is the nil key
MaxVal == 2          \* values are 1..MaxVal
MaxCap == 2          \* capacities given to NewLRU / Resize are at most this
MaxCounter == 6      \* largest positive value of the (scaled-down) int64 counter
shardCount == 2      \* shards of the sharded cache (256 in sharded_lru.go)
NumThreads == 2      \* goroutines calling the sharded cache
MaxCalls == 2        \* calls each goroutine makes on the sharded cache when they run concurrently
MaxSeqCalls == 5     \* calls a single goroutine makes on the sharded cache
MaxTouches == 3      \* stamps handed out to a cache that starts full before the calls stop

\* --------------------------------------------------------------- constants
randomProbes == 8
TestCap == 128       \* capacity of the cache in TestLRU
TestKeys == 256      \* keys TestLRU adds, once each
TestSlack == 20      \* how many stale / early-evicted keys TestLRU tolerates

NilKey == 0          \* zero value of the key type, as left by entry{}
NilVal == 0          \* zero value of the value type, as left by entry{}

Keys == 0..MaxKey
Values == 1..MaxVal
Caps == 1..MaxCap

ZeroEntry == [lastUsed |-> 0, key |-> NilKey, value |-> NilVal]

VARIABLES
    items,      \* map key -> index into data
    data,       \* the entry slice
    counter,    \* next stamp
    size,       \* capacity
    panicked,   \* "none", or the panic that ended the program
    op,         \* the last call: name, key, argument, and whether it repeats the call before it
    ret,        \* what the last call returned
    cbs,        \* the (key, value) pairs onEvict was called with during the last call, in order
    audit,      \* which of the two records below the caller keeps: a subset of {"recency", "ledger"},
                \* or {"strict"} when recency is the list of a strict LRU given the same calls
    recency,    \* keys in the order they were last touched by Add or a Get hit (oldest first)
    ledger,     \* running totals: adds that returned true, removes that returned true
                \* plus entries live at each purge, callback invocations; whether Purge
                \* was called; the key of the last Add that returned
    sc,         \* the ShardedCache: its shards (mutex holder and LRU), size and hash seed
    threads     \* per goroutine: where it is in its call on the sharded cache

vars == <<items, data, counter, size, panicked, op, ret, cbs, audit, recency, ledger,
          sc, threads>>

\* ------------------------------------------------------------ map helpers
EmptyMap == [x \in {} |-> 0]
MapPut(m, k, i) == [x \in (DOMAIN m) \cup {k} |-> IF x = k THEN i ELSE m[x]]
MapDel(m, k) == [x \in (DOMAIN m) \ {k} |-> m[x]]

\* data[i] for a 0-based Go index i
At(d, i) == d[i + 1]
\* data[i] = e
SetAt(d, i, e) == [d EXCEPT ![i + 1] = e]
InRange(d, i) == i >= 0 /\ i < Len(d)

\* The LRU struct as a record
Cache == [items |-> items, data |-> data, counter |-> counter, size |-> size]

\* c.Len()
LenOf(c) == Cardinality(DOMAIN c.items)

NoRet == [ok |-> FALSE, value |-> NilVal, n |-> 0]
RetOk(b) == [ok |-> b, value |-> NilVal, n |-> 0]
RetVal(v, b) == [ok |-> b, value |-> v, n |-> 0]
RetN(n) == [ok |-> FALSE, value |-> NilVal, n |-> n]

\* Result of running an operation: the struct afterwards, the return value,
\* the callbacks fired and the panic raised ("none" if it returned).
Result(c, r, cb, p) == [c |-> c, ret |-> r, cbs |-> cb, panic |-> p]

\* ------------------------------------------------------------------- NewLRU
\* Sizes a caller may hand to a constructor
SizeArgs == -1..MaxCap

\* The nil *LRU a failed construction returns (a constructed LRU never has counter 0)
NilLRU == [items |-> EmptyMap, data |-> <<>>, counter |-> 0, size |-> 0]

\* What a constructor returns: the cache and whether err is non-nil
Built(c, e) == [c |-> c, err |-> e]

\* NewLRU that turns away negative sizes only
NewLRU_allowsZero(n) ==
    IF n < 0 THEN Built(NilLRU, TRUE)
    ELSE Built([items |-> EmptyMap, data |-> <<>>, counter |-> 1, size |-> n], FALSE)

NewLRU(n) ==
    IF n <= 0 THEN Built(NilLRU, TRUE)
    ELSE Built([items |-> EmptyMap, data |-> <<>>, counter |-> 1, size |-> n], FALSE)

\* The facade's constructor: hands NewLRU's error on, else wraps the engine
NewWithEvict(n) ==
    LET r == NewLRU(n)
    IN IF r.err THEN Built(NilLRU, TRUE) ELSE Built(r.c, FALSE)

\* --------------------------------------------------------------- getCounter
\* c.counter++ on the scaled-down signed counter: past MaxCounter it wraps negative
incr(n) == IF n = MaxCounter THEN -(MaxCounter + 1) ELSE n + 1

\* getCounter that lets the counter wrap and carries on
getCounter_wraps(c) ==
    [c |-> [c EXCEPT !.counter = incr(c.counter)], n |-> c.counter, panic |-> FALSE]

getCounter(c) ==
    LET c1 == [c EXCEPT !.counter = incr(c.counter)]
    IN [c |-> c1, n |-> c.counter, panic |-> c1.counter < 0]

\* ------------------------------------------------------------ removeElement
\* removeElement that clears the slot and calls back but leaves the key in items
removeElement_keepsKey(c, i, ent) ==
    [c |-> [c EXCEPT !.data = SetAt(c.data, i, ZeroEntry)],
     cbs |-> << <<ent.key, ent.value>> >>]

removeElement(c, i, ent) ==
    [c |-> [c EXCEPT !.data = SetAt(c.data, i, ZeroEntry),
                     !.items = MapDel(c.items, ent.key)],
     cbs |-> << <<ent.key, ent.value>> >>]

\* ------------------------------------------------------------------ shuffle
\* The swap callback handed to rng.Shuffle
swap(c, i, j) ==
    LET it1 == MapPut(c.items, At(c.data, i).key, j)
        it2 == MapPut(it1, At(c.data, j).key, i)
        d2 == [c.data EXCEPT ![i + 1] = At(c.data, j), ![j + 1] = At(c.data, i)]
    IN [c EXCEPT !.items = it2, !.data = d2]

\* rng.Shuffle(n, swap): for i = n-1 down to 1, swap(i, j) with j drawn from 0..i
\* (swap is called also when j = i).  js[i] is the j drawn at step i.
ShuffleChoices(n) == {js \in [1..(n - 1) -> 0..(n - 1)] : \A i \in 1..(n - 1) : js[i] <= i}

RECURSIVE shuffleFrom(_, _, _)
shuffleFrom(c, js, i) ==
    IF i < 1 THEN c ELSE shuffleFrom(swap(c, i, js[i]), js, i - 1)

shuffle(c, js) == shuffleFrom(c, js, Len(c.data) - 1)

\* ------------------------------------------------------------- removeOldest
\* Probe offsets that stay on the last slot instead of wrapping round
probeOff_stopsAtEnd(base, j, n) == IF base + j < n THEN base + j ELSE n - 1

\* Offset examined by probe j from the given base
probeOff(base, j, n) ==
    IF base + randomProbes - 1 < n THEN base + j ELSE (base + j) % n

\* The probe loop that looks no further than the base slot
probe_baseOnly(d, n, base, j, oldestOff) == oldestOff

\* The probe loop from probe j on: keeps the offset of the smallest lastUsed seen so far
RECURSIVE probe(_, _, _, _, _)
probe(d, n, base, j, oldestOff) ==
    IF j >= randomProbes THEN oldestOff
    ELSE LET off == probeOff(base, j, n)
         IN IF At(d, off).lastUsed < At(d, oldestOff).lastUsed
            THEN probe(d, n, base, j + 1, off)
            ELSE probe(d, n, base, j + 1, oldestOff)

\* Values rng.Intn(size) can return in removeOldest
BaseChoices(c) == IF LenOf(c) > 0 THEN 0..(LenOf(c) - 1) ELSE {0}

\* removeOldest that hands back the chosen slot without removing the entry in it
removeOldest_keepsEntry(c, base) ==
    LET n == LenOf(c)
    IN IF n <= 0 THEN [c |-> c, off |-> -1, cbs |-> <<>>, panic |-> "none"]
       ELSE IF \/ ~InRange(c.data, base)
               \/ \E j \in 1..(randomProbes - 1) : ~InRange(c.data, probeOff(base, j, n))
       THEN [c |-> c, off |-> -1, cbs |-> <<>>, panic |-> "index"]
       ELSE [c |-> c, off |-> probe(c.data, n, base, 1, base), cbs |-> <<>>, panic |-> "none"]

removeOldest(c, base) ==
    LET n == LenOf(c)
    IN IF n <= 0 THEN [c |-> c, off |-> -1, cbs |-> <<>>, panic |-> "none"]
       ELSE IF \/ ~InRange(c.data, base)
               \/ \E j \in 1..(randomProbes - 1) : ~InRange(c.data, probeOff(base, j, n))
       THEN [c |-> c, off |-> -1, cbs |-> <<>>, panic |-> "index"]
       ELSE LET oldestOff == probe(c.data, n, base, 1, base)
                oldest == At(c.data, oldestOff)
            IN IF oldest.lastUsed # 0
               THEN LET r == removeElement(c, oldestOff, oldest)
                    IN [c |-> r.c, off |-> oldestOff, cbs |-> r.cbs, panic |-> "none"]
               ELSE [c |-> c, off |-> oldestOff, cbs |-> <<>>, panic |-> "none"]

\* ---------------------------------------------------------------------- Add
\* Whether Add(key, _) will run the one-time shuffle
AddShuffles(c, key) ==
    /\ key \notin DOMAIN c.items
    /\ Len(c.data) < c.size
    /\ Len(c.data) + 1 = c.size

Add(c, key, value, base, js) ==
    LET g == getCounter(c)
        now == g.n
        c1 == g.c
        ent == [lastUsed |-> now, key |-> key, value |-> value]
    IN IF g.panic THEN Result(c1, NoRet, <<>>, "overflow")
       ELSE IF key \in DOMAIN c1.items
       THEN LET i == c1.items[key]
            IN IF ~InRange(c1.data, i) THEN Result(c1, NoRet, <<>>, "index")
               ELSE Result([c1 EXCEPT !.data = SetAt(c1.data, i,
                                [At(c1.data, i) EXCEPT !.lastUsed = now, !.value = value])],
                           RetOk(FALSE), <<>>, "none")
       ELSE IF Len(c1.data) < c1.size
       THEN LET i == Len(c1.data)
                c2 == [c1 EXCEPT !.data = Append(c1.data, ent), !.items = MapPut(c1.items, key, i)]
            IN Result(IF Len(c2.data) = c2.size THEN shuffle(c2, js) ELSE c2,
                      RetOk(FALSE), <<>>, "none")
       ELSE LET r == removeOldest(c1, base)
                i == r.off
            IN IF r.panic # "none" THEN Result(r.c, NoRet, r.cbs, r.panic)
               ELSE IF ~InRange(r.c.data, i) THEN Result(r.c, NoRet, r.cbs, "index")
               ELSE Result([r.c EXCEPT !.data = SetAt(r.c.data, i, ent),
                                       !.items = MapPut(r.c.items, key, i)],
                           RetOk(TRUE), r.cbs, "none")

\* ---------------------------------------------------------------------- Get
Get(c, key) ==
    IF key \in DOMAIN c.items
    THEN LET i == c.items[key]
         IN IF ~InRange(c.data, i) THEN Result(c, NoRet, <<>>, "index")
            ELSE LET g == getCounter(c)
                 IN IF g.panic THEN Result(g.c, NoRet, <<>>, "overflow")
                    ELSE Result([g.c EXCEPT !.data = SetAt(g.c.data, i,
                                     [At(g.c.data, i) EXCEPT !.lastUsed = g.n])],
                                RetVal(At(c.data, i).value, TRUE), <<>>, "none")
    ELSE Result(c, RetVal(NilVal, FALSE), <<>>, "none")

\* ----------------------------------------------------------------- Contains
Contains(c, key) == Result(c, RetOk(key \in DOMAIN c.items), <<>>, "none")

\* --------------------------------------------------------------------- Peek
\* Peek that refreshes the entry the way Get does
Peek_touches(c, key) == Get(c, key)

Peek(c, key) ==
    IF key \in DOMAIN c.items
    THEN LET i == c.items[key]
         IN IF ~InRange(c.data, i) THEN Result(c, NoRet, <<>>, "index")
            ELSE Result(c, RetVal(At(c.data, i).value, TRUE), <<>>, "none")
    ELSE Result(c, RetVal(NilVal, FALSE), <<>>, "none")

\* ------------------------------------------------- ContainsOrAdd, PeekOrAdd
\* (found, evicted) of ContainsOrAdd, (previous, found, evicted) of PeekOrAdd
RetFound(found, evicted, previous) ==
    [ok |-> found, value |-> previous, n |-> 0, evicted |-> evicted]

\* The Add half of the two composites: found = false, evicted as Add says
OrAddStore(c, key, value, base, js) ==
    LET a == Add(c, key, value, base, js)
    IN IF a.panic # "none" THEN a
       ELSE Result(a.c, RetFound(FALSE, a.ret.ok, NilVal), a.cbs, "none")

ContainsOrAdd(c, key, value, base, js) ==
    IF Contains(c, key).ret.ok
    THEN Result(c, RetFound(TRUE, FALSE, NilVal), <<>>, "none")
    ELSE OrAddStore(c, key, value, base, js)

PeekOrAdd(c, key, value, base, js) ==
    LET p == Peek(c, key)
    IN IF p.panic # "none" THEN p
       ELSE IF p.ret.ok
       THEN Result(c, RetFound(TRUE, FALSE, p.ret.value), <<>>, "none")
       ELSE OrAddStore(c, key, value, base, js)

\* ------------------------------------------------------------------- Remove
Remove(c, key) ==
    IF key \in DOMAIN c.items
    THEN LET i == c.items[key]
         IN IF ~InRange(c.data, i) THEN Result(c, NoRet, <<>>, "index")
            ELSE LET r == removeElement(c, i, At(c.data, i))
                 IN Result(r.c, RetOk(TRUE), r.cbs, "none")
    ELSE Result(c, RetOk(FALSE), <<>>, "none")

\* ---------------------------------------------------------------------- Len
LenCall(c) == Result(c, RetN(LenOf(c)), <<>>, "none")

\* -------------------------------------------------------------------- Purge
\* Orders in which `range c.items` can visit the keys
RangeOrders(m) ==
    LET n == Cardinality(DOMAIN m)
    IN {s \in [1..n -> DOMAIN m] : \A a, b \in 1..n : a # b => s[a] # s[b]}

\* The callbacks of the range loop from position p of the visiting order on;
\* stops at the first index that is out of range
RECURSIVE purgeLoop(_, _, _, _)
purgeLoop(c, order, p, fired) ==
    IF p > Len(order) THEN [cbs |-> fired, panic |-> "none"]
    ELSE LET k == order[p]
             i == c.items[k]
         IN IF ~InRange(c.data, i) THEN [cbs |-> fired, panic |-> "index"]
            ELSE purgeLoop(c, order, p + 1, Append(fired, <<k, At(c.data, i).value>>))

Purge(c, order) ==
    LET l == purgeLoop(c, order, 1, <<>>)
    IN IF l.panic # "none" THEN Result(c, NoRet, l.cbs, l.panic)
       ELSE Result([c EXCEPT !.data = <<>>, !.items = EmptyMap], NoRet, l.cbs, "none")

\* ------------------------------------------------------------------- Resize
\* sort.Sort(byLastUsed(c.data)): descending lastUsed.  Entries that compare equal
\* are all the zero entry, so the result does not depend on the sort's stability.
RECURSIVE byLastUsed(_)
byLastUsed(d) ==
    IF Len(d) = 0 THEN <<>>
    ELSE LET m == CHOOSE a \in 1..Len(d) :
                      /\ \A b \in 1..Len(d) : d[b].lastUsed <= d[a].lastUsed
                      /\ \A b \in 1..(a - 1) : d[b].lastUsed < d[a].lastUsed
         IN <<d[m]>> \o byLastUsed(SubSeq(d, 1, m - 1) \o SubSeq(d, m + 1, Len(d)))

\* The loop that re-points items at the sorted positions, skipping zero-stamped slots
reindex(its, d) ==
    LET live == {i \in 0..(Len(d) - 1) : At(d, i).lastUsed # 0}
        last(k) == CHOOSE i \in live : At(d, i).key = k /\ \A j \in live : At(d, j).key = k => j <= i
    IN [k \in (DOMAIN its) \cup {At(d, i).key : i \in live} |->
            IF \E i \in live : At(d, i).key = k THEN last(k) ELSE its[k]]

\* The loop removing the last diff slots, from iteration i on
RECURSIVE dropLoop(_, _, _, _, _)
dropLoop(c, oldSize, diff, i, fired) ==
    IF i >= diff THEN [c |-> c, cbs |-> fired, panic |-> "none"]
    ELSE LET j == oldSize - 1 - i
         IN IF ~InRange(c.data, j) THEN [c |-> c, cbs |-> fired, panic |-> "index"]
            ELSE IF At(c.data, j).lastUsed > 0
            THEN LET r == removeElement(c, j, At(c.data, j))
                 IN dropLoop(r.c, oldSize, diff, i + 1, fired \o r.cbs)
            ELSE dropLoop(c, oldSize, diff, i + 1, fired)

ResizeShuffleLen(c, n) == IF n < Len(c.data) THEN n ELSE Len(c.data)

\* Resize that starts the buffer afresh at the new capacity
Resize_startsAfresh(c, n, js) ==
    Result([c EXCEPT !.size = n, !.data = <<>>, !.items = EmptyMap], RetN(0), <<>>, "none")

Resize(c, n, js) ==
    LET diff == IF LenOf(c) - n < 0 THEN 0 ELSE LenOf(c) - n
        sorted == byLastUsed(c.data)
        c1 == [c EXCEPT !.data = sorted, !.items = reindex(c.items, sorted)]
        oldSize == Len(c1.data)
        l == dropLoop(c1, oldSize, diff, 0, <<>>)
        c2 == [l.c EXCEPT !.size = n,
                          !.data = IF n < oldSize THEN SubSeq(l.c.data, 1, n) ELSE l.c.data]
    IN IF l.panic # "none" THEN Result(l.c, NoRet, l.cbs, l.panic)
       ELSE IF Len(c2.data) # LenOf(c2) THEN Result(c2, NoRet, l.cbs, "mucked")
       ELSE Result(shuffle(c2, js), RetN(diff), l.cbs, "none")

\* ============================================================ ShardedCache
\* No sharded cache was built
NoSharded == [shards |-> <<>>, size |-> 0, seed |-> <<>>, onEvict |-> "nil", asked |-> 0]

Threads == 1..NumThreads

\* hash.Sum64() % shardCount as a function of the key, for the seeds tried: one
\* sending every key to shard 0, one spreading the keys over the shards
Seeds == {[k \in Keys |-> 0], [k \in Keys |-> k % shardCount]}

\* Sizes a caller may ask NewSharded for
ShardedSizes == -1..(MaxCap * shardCount + 1)

\* onEvicted is a callback that returns ("returns") or one that may panic ("panics");
\* asked is the size the constructor was called with, kept for the record
NewShardedWithEvict(sz, seed, onEvicted) ==
    LET raised == IF sz < shardCount THEN shardCount ELSE sz
        perShardSize == raised \div shardCount
        r == NewLRU(perShardSize)
    IN IF r.err THEN Built(NoSharded, TRUE)
       ELSE Built([shards |-> [i \in 1..shardCount |-> [mu |-> 0, lru |-> r.c]],
                   size |-> perShardSize * shardCount,
                   seed |-> seed,
                   onEvict |-> onEvicted,
                   asked |-> sz], FALSE)

\* Whether an invocation of the callback may panic
Booms(c) == IF c.onEvict = "panics" THEN BOOLEAN ELSE {FALSE}

getShard(c, key) == c.seed[key]

\* shard i (0-based): who holds its mutex (0 if nobody) and its LRU
Mu(c, i) == c.shards[i + 1].mu
Lru(c, i) == c.shards[i + 1].lru
SetMu(c, i, t) == [c EXCEPT !.shards[i + 1].mu = t]
SetLru(c, i, l) == [c EXCEPT !.shards[i + 1].lru = l]

\* shard.mu.Lock() that does not wait for the holder
CanLock_barges(c, i) == TRUE

\* Whether shard.mu.Lock() on shard i can return
CanLock(c, i) == Mu(c, i) = 0

KeyedOps == {"add", "get", "contains", "peek", "remove"}
OrAddOps == {"containsOrAdd", "peekOrAdd"}
SweepOps == {"len", "purge"}

\* shard.lru.<name>(key, value) of the plain keyed operations
EngineCall(name, c, key, value, base, js) ==
    CASE name = "add" -> Add(c, key, value, base, js)
      [] name = "get" -> Get(c, key)
      [] name = "contains" -> Contains(c, key)
      [] name = "peek" -> Peek(c, key)
      [] name = "remove" -> Remove(c, key)

\* The call r of operation name on LRU c when onEvict panics in its first invocation
\* (boom) : removeElement has cleared the entry by then, Add has not stored the
\* new one, Purge has cleared nothing
Boom(boom, name, c, base, r) ==
    IF ~boom \/ r.panic # "none" \/ r.cbs = <<>> THEN r
    ELSE CASE name = "purge" -> Result(c, NoRet, <<r.cbs[1]>>, "callback")
           [] name = "remove" -> Result(r.c, NoRet, r.cbs, "callback")
           [] OTHER -> Result(removeOldest(getCounter(c).c, base).c, NoRet, r.cbs, "callback")

\* Random draws an Add on LRU c may take
Draws(c, key) ==
    {[base |-> b, js |-> j] :
        b \in BaseChoices(c),
        j \in (IF AddShuffles(c, key) THEN ShuffleChoices(c.size) ELSE {<<>>})}

\* ==================================================== Cache (the facade)
\* The Cache struct: its RWMutex (w: the goroutine holding it for writing, 0 if
\* none; r: how many hold it for reading), its LRU and what onEvict does
NewCache(n, onEvicted) ==
    LET b == NewWithEvict(n)
    IN [lock |-> [w |-> 0, r |-> 0], lru |-> b.c, onEvict |-> onEvicted]

\* c.lock.RLock() that does not wait for a writer
CanRLock_ignoresWriter(c) == TRUE

\* Whether c.lock.RLock() can return
CanRLock(c) == c.lock.w = 0

\* Whether c.lock.Lock() can return
CanWLock(c) == c.lock.w = 0 /\ c.lock.r = 0

\* The methods that take the lock by RLock, and those that take it by Lock
ReadOps == {"contains", "peek", "len"}
WriteOps == {"add", "get", "remove", "purge", "resize"}

\* c.lru.<name> of the methods that read
ReadCall(name, c, key) ==
    CASE name = "contains" -> Contains(c, key)
      [] name = "peek" -> Peek(c, key)
      [] name = "len" -> LenCall(c)

\* Resize(n) on LRU c when onEvict panics in its first invocation: the buffer is
\* sorted and re-indexed and the first entry dropped is gone; the size is not yet set
RECURSIVE ResizeBoom(_, _, _, _)
ResizeBoom(c, oldSize, diff, k) ==
    LET l == dropLoop(c, oldSize, k, 0, <<>>)
    IN IF k > diff THEN l
       ELSE IF l.cbs # <<>> \/ l.panic # "none" THEN l
       ELSE ResizeBoom(c, oldSize, diff, k + 1)

\* c.lru.<name> of the methods that write, the callback panicking (boom) or not
WriteCall(name, c, key, value, n, d, order, boom) ==
    CASE name = "purge" -> Boom(boom, name, c, 0, Purge(c, order))
      [] name = "resize" ->
            LET r == Resize(c, n, d.rjs)
                sorted == byLastUsed(c.data)
                c1 == [c EXCEPT !.data = sorted, !.items = reindex(c.items, sorted)]
                l == ResizeBoom(c1, Len(sorted), IF LenOf(c) - n < 0 THEN 0 ELSE LenOf(c) - n, 1)
            IN IF ~boom \/ r.cbs = <<>> \/ l.panic # "none" THEN r
               ELSE Result(l.c, NoRet, l.cbs, "callback")
      [] OTHER -> Boom(boom, name, c, d.base, EngineCall(name, c, key, value, d.base, d.js))

\* Random draws a call on LRU c may take: those of Add and those of Resize(n)
FacadeDraws(c, key, n) ==
    {[base |-> b, js |-> j, rjs |-> rj] :
        b \in BaseChoices(c),
        j \in (IF AddShuffles(c, key) THEN ShuffleChoices(c.size) ELSE {<<>>}),
        rj \in ShuffleChoices(ResizeShuffleLen(c, n))}

\* ==================================================================== state
\* Number of slots holding a live entry
Live(d) == Cardinality({i \in 1..Len(d) : d[i].lastUsed # 0})

Without(s, k) == SelectSeq(s, LAMBDA x : x # k)

\* NewLRU(size, onEvict) with size > 0; a is what the caller records
New(a) ==
    /\ size \in Caps
    /\ items = EmptyMap
    /\ data = <<>>
    /\ counter = 1
    /\ panicked = "none"
    /\ op = [name |-> "new", key |-> NilKey, arg |-> size, again |-> FALSE]
    /\ ret = NoRet
    /\ cbs = <<>>
    /\ audit = a
    /\ recency = <<>>
    /\ ledger = [addTrue |-> 0, removed |-> 0, callbacks |-> 0, purged |-> FALSE,
                 lastAdd |-> NilKey]
    /\ sc = NoSharded
    /\ threads = <<>>

Init == New({})

\* A strict LRU cache of capacity cap given the same call: l is its list of
\* (key, value), least recently used first.  Add and a Get hit move the key to the
\* back, Peek and Contains leave the list alone, Add of a new key to a full list
\* drops the head and calls back with it, Purge calls back with every entry.
StrictLRU(name, l, key, value, cap) ==
    LET hit == \E p \in 1..Len(l) : l[p].key = key
        found == l[CHOOSE p \in 1..Len(l) : l[p].key = key]
        rest == SelectSeq(l, LAMBDA e : e.key # key)
        new == [key |-> key, value |-> value]
        same(r) == [l |-> l, ret |-> r, cbs |-> <<>>]
    IN CASE name = "add" ->
              IF hit THEN [l |-> Append(rest, new), ret |-> RetOk(FALSE), cbs |-> <<>>]
              ELSE IF Len(l) < cap
              THEN [l |-> Append(l, new), ret |-> RetOk(FALSE), cbs |-> <<>>]
              ELSE [l |-> Append(Tail(l), new), ret |-> RetOk(TRUE),
                    cbs |-> << <<Head(l).key, Head(l).value>> >>]
         [] name = "get" ->
              IF hit THEN [l |-> Append(rest, found), ret |-> RetVal(found.value, TRUE),
                           cbs |-> <<>>]
              ELSE same(RetVal(NilVal, FALSE))
         [] name = "peek" ->
              IF hit THEN same(RetVal(found.value, TRUE)) ELSE same(RetVal(NilVal, FALSE))
         [] name = "contains" -> same(RetOk(hit))
         [] name = "len" -> same(RetN(Len(l)))
         [] name = "purge" ->
              [l |-> <<>>, ret |-> NoRet,
               cbs |-> [p \in 1..Len(l) |-> <<l[p].key, l[p].value>>]]

\* One call by the program's user: r is what the operation did to the struct.
Call(name, key, arg, r) ==
    /\ panicked = "none"
    /\ items' = r.c.items
    /\ data' = r.c.data
    /\ counter' = r.c.counter
    /\ size' = r.c.size
    /\ panicked' = r.panic
    /\ op' = [name |-> name, key |-> key, arg |-> arg,
              again |-> op.name = name /\ op.key = key]
    /\ ret' = r.ret
    /\ cbs' = r.cbs
    /\ audit' = audit
    /\ recency' = IF "strict" \in audit /\ r.panic = "none"
                  THEN StrictLRU(name, recency, key, arg, size).l
                  ELSE IF /\ "recency" \in audit
                     /\ r.panic = "none"
                     /\ (name = "add" \/ (name = "get" /\ r.ret.ok))
                  THEN Append(Without(recency, key), key)
                  ELSE recency
    /\ ledger' = IF "ledger" \notin audit THEN ledger
                 ELSE [addTrue |-> ledger.addTrue
                        + (IF name = "add" /\ r.panic = "none" /\ r.ret.ok THEN 1 ELSE 0),
                       removed |-> ledger.removed
                        + (IF name = "remove" /\ r.panic = "none" /\ r.ret.ok THEN 1 ELSE 0)
                        + (IF name = "purge" /\ r.panic = "none" THEN Live(data) ELSE 0),
                       callbacks |-> ledger.callbacks + Len(r.cbs),
                       purged |-> ledger.purged \/ name = "purge",
                       lastAdd |-> IF name = "add" /\ r.panic = "none" THEN key
                                   ELSE ledger.lastAdd]
    /\ UNCHANGED <<sc, threads>>

AddOf(key) ==
    \E value \in Values :
        \E base \in BaseChoices(Cache) :
            \E js \in (IF AddShuffles(Cache, key) THEN ShuffleChoices(size) ELSE {<<>>}) :
                Call("add", key, value, Add(Cache, key, value, base, js))

CallAdd == \E key \in Keys : AddOf(key)

CallGet == \E key \in Keys : Call("get", key, NilVal, Get(Cache, key))

CallContains == \E key \in Keys : Call("contains", key, NilVal, Contains(Cache, key))

CallPeek == \E key \in Keys : Call("peek", key, NilVal, Peek(Cache, key))

CallRemove == \E key \in Keys : Call("remove", key, NilVal, Remove(Cache, key))

CallLen == Call("len", NilKey, NilVal, LenCall(Cache))

CallPurge == \E order \in RangeOrders(items) : Call("purge", NilKey, NilVal, Purge(Cache, order))

CallResize ==
    \E n \in 0..MaxCap :
        \E js \in ShuffleChoices(ResizeShuffleLen(Cache, n)) :
            Call("resize", NilKey, n, Resize(Cache, n, js))

\* Add, Get, Peek, Contains, Remove, Purge and Len in any order
Next ==
    \/ CallAdd
    \/ CallGet
    \/ CallContains
    \/ CallPeek
    \/ CallRemove
    \/ CallLen
    \/ CallPurge

Spec == Init /\ [][Next]_vars

\* The same calls, the caller keeping the ledger of results and callbacks
InitLedger == New({"ledger"})
SpecLedger == InitLedger /\ [][Next]_vars

\* The same calls, the caller keeping the order of touches
InitRecency == New({"recency"})
SpecRecency == InitRecency /\ [][Next]_vars

\* The same with Resize
NextResize ==
    \/ Next
    \/ CallResize

SpecResize == Init /\ [][NextResize]_vars

\* Keys never passed to Add so far (recency holds every key ever added when it is kept)
Fresh == {k \in Keys : \A p \in 1..Len(recency) : recency[p] # k}

\* Add of a key never added before
CallAddNew == \E key \in Fresh : AddOf(key)

\* Rollover: only new keys are added; no Remove, no Resize
InitRollover == New({"recency", "ledger"})

NextRollover ==
    \/ CallAddNew
    \/ CallGet
    \/ CallContains
    \/ CallPeek
    \/ CallLen
    \/ CallPurge

SpecRollover == InitRollover /\ [][NextRollover]_vars

\* The facade's composite calls, used by one caller at a time
CallContainsOrAdd ==
    \E key \in Keys : \E value \in Values :
        \E base \in BaseChoices(Cache) :
            \E js \in (IF AddShuffles(Cache, key) THEN ShuffleChoices(size) ELSE {<<>>}) :
                Call("containsOrAdd", key, value, ContainsOrAdd(Cache, key, value, base, js))

CallPeekOrAdd ==
    \E key \in Keys : \E value \in Values :
        \E base \in BaseChoices(Cache) :
            \E js \in (IF AddShuffles(Cache, key) THEN ShuffleChoices(size) ELSE {<<>>}) :
                Call("peekOrAdd", key, value, PeekOrAdd(Cache, key, value, base, js))

\* Every call of the facade, in any order
NextFacade ==
    \/ NextResize
    \/ CallContainsOrAdd
    \/ CallPeekOrAdd

SpecFacade == Init /\ [][NextFacade]_vars

\* Construction with any size, by the engine's or the facade's constructor; the
\* calls follow when a cache was returned
Constructors == {"new", "newWithEvict"}

RetErr(e) == [ok |-> FALSE, value |-> NilVal, n |-> 0, err |-> e]

InitNew ==
    \E n \in SizeArgs : \E ctor \in Constructors :
        LET r == IF ctor = "new" THEN NewLRU(n) ELSE NewWithEvict(n)
        IN /\ items = r.c.items
           /\ data = r.c.data
           /\ counter = r.c.counter
           /\ size = r.c.size
           /\ panicked = "none"
           /\ op = [name |-> ctor, key |-> NilKey, arg |-> n, again |-> FALSE]
           /\ ret = RetErr(r.err)
           /\ cbs = <<>>
           /\ audit = {}
           /\ recency = <<>>
           /\ ledger = [addTrue |-> 0, removed |-> 0, callbacks |-> 0, purged |-> FALSE,
                        lastAdd |-> NilKey]
           /\ sc = NoSharded
           /\ threads = <<>>

NextNew ==
    /\ Cache # NilLRU
    /\ NextResize

SpecNew == InitNew /\ [][NextNew]_vars

\* ------------------------------------------------- goroutines on the shards
EngineVars == <<items, data, counter, size, panicked, op, ret, cbs, audit, recency, ledger>>

\* What a goroutine keeps of its last call when results are recorded
NoLast == [ret |-> NoRet, panic |-> "none"]

\* A goroutine outside every call
Idle == [pc |-> "idle", name |-> "none", key |-> NilKey, i |-> 0, n |-> 0, last |-> NoLast,
         left |-> 0]

\* NewShardedWithEvict(sz, cb) for a size drawn from sizes, a hash seed drawn from
\* seeds and the callback cb, with n goroutines about to make b calls each;
\* a is what the callers record
NewSharded(sizes, seeds, cb, n, b, a) ==
    /\ \E sz \in sizes : \E seed \in seeds : sc = NewShardedWithEvict(sz, seed, cb).c
    /\ threads = [t \in 1..n |-> [Idle EXCEPT !.left = b]]
    /\ items = NilLRU.items
    /\ data = NilLRU.data
    /\ counter = NilLRU.counter
    /\ size = NilLRU.size
    /\ panicked = "none"
    /\ op = [name |-> "newSharded", key |-> NilKey, arg |-> NilVal, again |-> FALSE]
    /\ ret = RetErr(FALSE)
    /\ cbs = <<>>
    /\ audit = a
    /\ recency = <<>>
    /\ ledger = [addTrue |-> 0, removed |-> 0, callbacks |-> 0, purged |-> FALSE,
                 lastAdd |-> NilKey]

\* The goroutine th after its call ended the way r says (by return or by panic)
Done(th, r) ==
    IF "results" \in audit
    THEN [th EXCEPT !.pc = "idle", !.n = 0, !.last = [ret |-> r.ret, panic |-> r.panic]]
    ELSE [Idle EXCEPT !.left = th.left]

\* Between Contains / Peek and Add the composite calls keep the lock
HeldOver(c, i) == c

\* A goroutine calls an operation: it computes the shard and goes for its lock.
\* The keys the callers use are those the seed was tried on.
SBegin(t) ==
    /\ threads[t].pc = "idle"
    /\ threads[t].left > 0
    /\ \E name \in KeyedOps \cup OrAddOps \cup SweepOps : \E key \in DOMAIN sc.seed :
          /\ name \in SweepOps => \A k \in DOMAIN sc.seed : key <= k
          /\ threads' = [threads EXCEPT ![t] =
                 [pc |-> "lock", name |-> name, key |-> IF name \in SweepOps THEN NilKey ELSE key,
                  i |-> IF name \in SweepOps THEN 0 ELSE getShard(sc, key),
                  n |-> 0, last |-> NoLast, left |-> threads[t].left - 1]]
    /\ UNCHANGED sc
    /\ UNCHANGED EngineVars

\* shard.mu.Lock()
SLock(t) ==
    LET th == threads[t]
    IN /\ th.pc = "lock"
       /\ CanLock(sc, th.i)
       /\ sc' = SetMu(sc, th.i, t)
       /\ threads' = [threads EXCEPT ![t].pc = "call"]
       /\ UNCHANGED EngineVars

\* Add, Get, Contains, Peek, Remove: the engine call, the deferred Unlock, the return.
\* Goroutine t stores the value t.
SKeyed(t) ==
    LET th == threads[t]
        l == Lru(sc, th.i)
    IN /\ th.pc = "call"
       /\ th.name \in KeyedOps
       /\ \E boom \in Booms(sc) : \E d \in Draws(l, th.key) :
             LET r == Boom(boom, th.name, l, d.base,
                           EngineCall(th.name, l, th.key, t, d.base, d.js))
             IN /\ sc' = SetMu(SetLru(sc, th.i, r.c), th.i, 0)
                /\ threads' = [threads EXCEPT ![t] = Done(th, r)]
       /\ UNCHANGED EngineVars

\* ContainsOrAdd, PeekOrAdd: the Contains / Peek; on a hit (or a panic) the deferred
\* Unlock and the return
SCheck(t) ==
    LET th == threads[t]
        l == Lru(sc, th.i)
        r == IF th.name = "containsOrAdd" THEN Contains(l, th.key) ELSE Peek(l, th.key)
    IN /\ th.pc = "call"
       /\ th.name \in OrAddOps
       /\ IF r.panic # "none"
          THEN /\ sc' = SetMu(sc, th.i, 0)
               /\ threads' = [threads EXCEPT ![t] = Done(th, r)]
          ELSE IF r.ret.ok
          THEN /\ sc' = SetMu(sc, th.i, 0)
               /\ threads' = [threads EXCEPT ![t] =
                      Done(th, Result(l, RetFound(TRUE, FALSE, r.ret.value), <<>>, "none"))]
          ELSE /\ sc' = HeldOver(sc, th.i)
               /\ threads' = [threads EXCEPT ![t].pc = "store"]
       /\ UNCHANGED EngineVars

\* ContainsOrAdd, PeekOrAdd on a miss: the Add, the deferred Unlock, the return
SStore(t) ==
    LET th == threads[t]
        l == Lru(sc, th.i)
    IN /\ th.pc = "store"
       /\ \E boom \in Booms(sc) : \E d \in Draws(l, th.key) :
             LET r == Boom(boom, "add", l, d.base, OrAddStore(l, th.key, t, d.base, d.js))
             IN /\ sc' = SetMu(SetLru(sc, th.i, r.c), th.i, 0)
                /\ threads' = [threads EXCEPT ![t] = Done(th, r)]
       /\ UNCHANGED EngineVars

\* The goroutine th after shard th.i of a Len or Purge: on to the next shard, or the return
Onward(th, n, r) ==
    IF th.i + 1 < shardCount
    THEN [th EXCEPT !.pc = "lock", !.i = th.i + 1, !.n = n]
    ELSE Done(th, r)

\* Len: one round of the loop: size += shard.lru.Len(); shard.mu.Unlock()
SLen(t) ==
    LET th == threads[t]
        l == Lru(sc, th.i)
        n == th.n + LenOf(l)
    IN /\ th.pc = "call"
       /\ th.name = "len"
       /\ sc' = SetMu(sc, th.i, 0)
       /\ threads' = [threads EXCEPT ![t] = Onward(th, n, Result(l, RetN(n), <<>>, "none"))]
       /\ UNCHANGED EngineVars

\* Purge: one round of the loop: shard.lru.Purge(); shard.mu.Unlock().  A panic in
\* shard.lru.Purge() leaves the function before the Unlock.
SPurge(t) ==
    LET th == threads[t]
        l == Lru(sc, th.i)
    IN /\ th.pc = "call"
       /\ th.name = "purge"
       /\ \E boom \in Booms(sc) : \E order \in RangeOrders(l.items) :
             LET r == Boom(boom, "purge", l, 0, Purge(l, order))
             IN IF r.panic # "none"
                THEN /\ sc' = SetLru(sc, th.i, r.c)
                     /\ threads' = [threads EXCEPT ![t] = Done(th, r)]
                ELSE /\ sc' = SetMu(SetLru(sc, th.i, r.c), th.i, 0)
                     /\ threads' = [threads EXCEPT ![t] = Onward(th, 0, r)]
       /\ UNCHANGED EngineVars

\* Goroutines calling the sharded cache concurrently, every shard of capacity 1
InitSharded == NewSharded({shardCount}, Seeds, "panics", NumThreads, MaxCalls, {})

NextSharded ==
    \E t \in DOMAIN threads :
        \/ SBegin(t)
        \/ SLock(t)
        \/ SKeyed(t)
        \/ SCheck(t)
        \/ SStore(t)
        \/ SLen(t)
        \/ SPurge(t)

SpecSharded == InitSharded /\ [][NextSharded]_vars

\* One goroutine calling the sharded cache, built with any size; the callback returns
InitShardedSeq == NewSharded(ShardedSizes, Seeds, "returns", 1, MaxSeqCalls, {})

SpecShardedSeq == InitShardedSeq /\ [][NextSharded]_vars

\* A step of goroutine t inside a call it has started
SRun(t) ==
    \/ SLock(t)
    \/ SKeyed(t)
    \/ SCheck(t)
    \/ SStore(t)
    \/ SLen(t)
    \/ SPurge(t)

\* The same under fair scheduling: a goroutine that can take a step of its call
\* from some point on takes one (a goroutine makes MaxCalls calls at most, so a
\* mutex that is free is not taken away from a waiter for ever)
InitShardedFair ==
    NewSharded({shardCount}, {[k \in {MaxKey} |-> 0]}, "panics", NumThreads, MaxCalls, {})

SpecShardedFair ==
    /\ InitShardedFair
    /\ [][NextSharded]_vars
    /\ \A t \in Threads : WF_vars(SRun(t))

\* Calls made one after the other, before any goroutine is started, by the
\* goroutine that built the cache: Add and Remove, each from Lock to Unlock
SWarm ==
    /\ \A t \in DOMAIN threads : threads[t].pc = "idle" /\ threads[t].name = "none"
    /\ \E name \in {"add", "remove"} : \E key \in DOMAIN sc.seed : \E value \in Values :
          LET i == getShard(sc, key)
              l == Lru(sc, i)
          IN /\ name = "remove" => value = MaxVal
             /\ CanLock(sc, i)
             /\ \E boom \in Booms(sc) : \E d \in Draws(l, key) :
                   LET r == Boom(boom, name, l, d.base,
                                 EngineCall(name, l, key, value, d.base, d.js))
                   IN /\ r.panic = "none"
                      /\ sc' = SetMu(SetLru(sc, i, r.c), i, 0)
    /\ UNCHANGED threads
    /\ UNCHANGED EngineVars

\* Goroutine t joins the race: it calls ContainsOrAdd or PeekOrAdd with the key the
\* others call it with, a key that is absent, before any of the others has returned
SBeginRace(t) ==
    /\ threads[t].pc = "idle"
    /\ threads[t].left > 0
    /\ \A u \in DOMAIN threads : threads[u].left > 0 \/ threads[u].pc # "idle"
    /\ \E name \in OrAddOps : \E key \in DOMAIN sc.seed :
          LET r == Contains(Lru(sc, getShard(sc, key)), key)
          IN /\ \A u \in DOMAIN threads : threads[u].name # "none" => threads[u].key = key
             /\ r.panic = "none"
             /\ ~r.ret.ok
             /\ threads' = [threads EXCEPT ![t] =
                    [pc |-> "lock", name |-> name, key |-> key, i |-> getShard(sc, key),
                     n |-> 0, last |-> NoLast, left |-> threads[t].left - 1]]
    /\ UNCHANGED sc
    /\ UNCHANGED EngineVars

\* Goroutines racing to ContainsOrAdd / PeekOrAdd one absent key, each with its own
\* value, on a cache that was used before; the callback returns; results are kept
InitRace ==
    NewSharded({shardCount, MaxCap * shardCount}, Seeds, "returns", NumThreads, 1, {"results"})

NextRace ==
    \/ SWarm
    \/ \E t \in DOMAIN threads :
          \/ SBeginRace(t)
          \/ SLock(t)
          \/ SCheck(t)
          \/ SStore(t)

SpecRace == InitRace /\ [][NextRace]_vars

\* ------------------------------------------- an evicting Add, step by step
\* Add(key, value) of a new key into a full buffer, up to the point where
\* removeElement calls onEvict: the counter is taken, removeOldest has chosen the
\* slot of a live entry, removeElement has cleared the slot and deleted the key.
\* The caller is then inside onEvict, with the slot i and the stamp now of the call.
EvictEnter ==
    /\ threads = <<>>
    /\ panicked = "none"
    /\ \E key \in Keys \ DOMAIN items : \E value \in Values : \E base \in BaseChoices(Cache) :
          LET g == getCounter(Cache)
              r == removeOldest(g.c, base)
          IN /\ ~g.panic
             /\ Len(data) >= size
             /\ r.panic = "none"
             /\ r.cbs # <<>>
             /\ items' = r.c.items
             /\ data' = r.c.data
             /\ counter' = r.c.counter
             /\ size' = r.c.size
             /\ op' = [name |-> "add", key |-> key, arg |-> value,
                       again |-> op.name = "add" /\ op.key = key]
             /\ cbs' = r.cbs
             /\ threads' = <<[Idle EXCEPT !.pc = "onEvict", !.name = "add", !.key = key,
                                         !.i = r.off, !.n = g.n]>>
    /\ ret' = NoRet
    /\ UNCHANGED <<panicked, audit, recency, ledger, sc>>

\* onEvict returns; Add writes the entry into the slot, indexes it and returns true
EvictReturn ==
    /\ threads # <<>>
    /\ threads[1].pc = "onEvict"
    /\ data' = SetAt(data, threads[1].i,
                     [lastUsed |-> threads[1].n, key |-> op.key, value |-> op.arg])
    /\ items' = MapPut(items, op.key, threads[1].i)
    /\ ret' = RetOk(TRUE)
    /\ threads' = <<>>
    /\ UNCHANGED <<counter, size, panicked, op, cbs, audit, recency, ledger, sc>>

\* Every call in one step, except the Adds that evict a live entry, which stop
\* inside the callback
NextEvict ==
    \/ /\ threads = <<>>
       /\ Next
       /\ op'.name = "add" => cbs' = <<>>
    \/ EvictEnter
    \/ EvictReturn

SpecEvict == Init /\ [][NextEvict]_vars

\* ------------------------------------------------ goroutines on the facade
\* NewWithEvict(sz, cb) for a size drawn from sizes, with n goroutines about to
\* make b calls each
NewFacade(sizes, cb, n, b) ==
    /\ \E sz \in sizes : sc = NewCache(sz, cb)
    /\ threads = [t \in 1..n |-> [Idle EXCEPT !.left = b]]
    /\ items = NilLRU.items
    /\ data = NilLRU.data
    /\ counter = NilLRU.counter
    /\ size = NilLRU.size
    /\ panicked = "none"
    /\ op = [name |-> "newWithEvict", key |-> NilKey, arg |-> NilVal, again |-> FALSE]
    /\ ret = RetErr(FALSE)
    /\ cbs = <<>>
    /\ audit = {}
    /\ recency = <<>>
    /\ ledger = [addTrue |-> 0, removed |-> 0, callbacks |-> 0, purged |-> FALSE,
                 lastAdd |-> NilKey]

\* A goroutine calls a method of the Cache and goes for the lock; n is the size
\* handed to Resize
FBegin(t) ==
    /\ threads[t].pc = "idle"
    /\ threads[t].left > 0
    /\ \E name \in ReadOps \cup WriteOps \cup OrAddOps : \E key \in Keys : \E n \in 0..MaxCap :
          /\ name \in {"len", "purge", "resize"} => key = NilKey
          /\ name # "resize" => n = 0
          /\ threads' = [threads EXCEPT ![t] =
                 [pc |-> "lock", name |-> name, key |-> key, i |-> 0, n |-> n,
                  last |-> NoLast, left |-> threads[t].left - 1]]
    /\ UNCHANGED sc
    /\ UNCHANGED EngineVars

\* c.lock.RLock() of Contains, Peek and Len; c.lock.Lock() of the others
FLock(t) ==
    LET th == threads[t]
    IN /\ th.pc = "lock"
       /\ IF th.name \in ReadOps
          THEN /\ CanRLock(sc)
               /\ sc' = [sc EXCEPT !.lock.r = @ + 1]
          ELSE /\ CanWLock(sc)
               /\ sc' = [sc EXCEPT !.lock.w = t]
       /\ threads' = [threads EXCEPT ![t].pc = "call"]
       /\ UNCHANGED EngineVars

\* Contains, Peek, Len: the engine call, c.lock.RUnlock(), the return; a panic in
\* the engine call leaves the method before the RUnlock
FRead(t) ==
    LET th == threads[t]
        r == ReadCall(th.name, sc.lru, th.key)
    IN /\ th.pc = "call"
       /\ th.name \in ReadOps
       /\ sc' = IF r.panic # "none" THEN sc ELSE [sc EXCEPT !.lock.r = @ - 1]
       /\ threads' = [threads EXCEPT ![t] = Done(th, r)]
       /\ UNCHANGED EngineVars

\* Purge, Add, Get, Remove, Resize: the engine call, c.lock.Unlock(), the return; a
\* panic in the engine call leaves the method before the Unlock.  Goroutine t
\* stores the value t.
FWrite(t) ==
    LET th == threads[t]
    IN /\ th.pc = "call"
       /\ th.name \in WriteOps
       /\ \E boom \in Booms(sc) : \E d \in FacadeDraws(sc.lru, th.key, th.n) :
          \E order \in RangeOrders(sc.lru.items) :
             LET r == WriteCall(th.name, sc.lru, th.key, t, th.n, d, order, boom)
             IN /\ sc' = IF r.panic # "none" THEN [sc EXCEPT !.lru = r.c]
                         ELSE [sc EXCEPT !.lru = r.c, !.lock.w = 0]
                /\ threads' = [threads EXCEPT ![t] = Done(th, r)]
       /\ UNCHANGED EngineVars

\* ContainsOrAdd, PeekOrAdd: the Contains / Peek; on a hit (or a panic) the deferred
\* Unlock and the return
FCheck(t) ==
    LET th == threads[t]
        r == IF th.name = "containsOrAdd" THEN Contains(sc.lru, th.key) ELSE Peek(sc.lru, th.key)
    IN /\ th.pc = "call"
       /\ th.name \in OrAddOps
       /\ IF r.panic # "none"
          THEN /\ sc' = [sc EXCEPT !.lock.w = 0]
               /\ threads' = [threads EXCEPT ![t] = Done(th, r)]
          ELSE IF r.ret.ok
          THEN /\ sc' = [sc EXCEPT !.lock.w = 0]
               /\ threads' = [threads EXCEPT ![t] =
                      Done(th, Result(sc.lru, RetFound(TRUE, FALSE, r.ret.value), <<>>, "none"))]
          ELSE /\ sc' = sc
               /\ threads' = [threads EXCEPT ![t].pc = "store"]
       /\ UNCHANGED EngineVars

\* ContainsOrAdd, PeekOrAdd on a miss: the Add, the deferred Unlock, the return
FStore(t) ==
    LET th == threads[t]
    IN /\ th.pc = "store"
       /\ \E boom \in Booms(sc) : \E d \in Draws(sc.lru, th.key) :
             LET r == Boom(boom, "add", sc.lru, d.base,
                           OrAddStore(sc.lru, th.key, t, d.base, d.js))
             IN /\ sc' = [sc EXCEPT !.lru = r.c, !.lock.w = 0]
                /\ threads' = [threads EXCEPT ![t] = Done(th, r)]
       /\ UNCHANGED EngineVars

\* Goroutines calling one Cache concurrently; the callback may panic
InitFacadeRace == NewFacade(Caps, "panics", NumThreads, MaxCalls)

NextFacadeRace ==
    \E t \in DOMAIN threads :
        \/ FBegin(t)
        \/ FLock(t)
        \/ FRead(t)
        \/ FWrite(t)
        \/ FCheck(t)
        \/ FStore(t)

SpecFacadeRace == InitFacadeRace /\ [][NextFacadeRace]_vars

\* ------------------------------------------ beside a strict LRU, no Remove
\* A cache of capacity 1..randomProbes next to a strict LRU of the same capacity:
\* either new (capacity at most MaxCap), or full: keys 1..n were added and touched
\* so that slot r holds the oldest stamp and the stamps rise from there round the
\* buffer.  The stamps of a full cache lie past MaxCounter, the point where the
\* scaled-down counter wraps, so its calls are not cut short by that overflow.
InitStrict ==
    LET full(n, r) ==
            [items |-> [k \in 1..n |-> k - 1],
             data |-> [i \in 1..n |-> [lastUsed |-> MaxCounter + 1 + ((i - 1 - r) % n),
                                       key |-> i, value |-> 1]],
             counter |-> MaxCounter + 1 + n,
             size |-> n]
        starts == {NewLRU(n).c : n \in Caps}
                    \cup UNION {{full(n, r) : r \in 0..(n - 1)} : n \in 1..randomProbes}
    IN \E c \in starts :
          /\ items = c.items
          /\ data = c.data
          /\ counter = c.counter
          /\ size = c.size
          /\ panicked = "none"
          /\ op = [name |-> "new", key |-> NilKey, arg |-> size, again |-> FALSE]
          /\ ret = NoRet
          /\ cbs = <<>>
          /\ audit = {"strict"}
          /\ recency = [q \in 1..Len(c.data) |->
                          LET e == CHOOSE e \in {c.data[i] : i \in 1..Len(c.data)} :
                                      e.lastUsed = MaxCounter + q
                          IN [key |-> e.key, value |-> e.value]]
          /\ ledger = [addTrue |-> 0, removed |-> 0, callbacks |-> 0, purged |-> FALSE,
                       lastAdd |-> NilKey]
          /\ sc = NoSharded
          /\ threads = <<>>

\* Add, Get, Peek, Contains, Len and Purge in any order, until MaxTouches stamps
\* past those the cache started with were handed out.  Purge's range loop visits
\* the keys in slot order starting at any slot.
NextStrict ==
    /\ counter <= MaxCounter + size + MaxTouches
    /\ \/ CallAdd
       \/ CallGet
       \/ CallContains
       \/ CallPeek
       \/ CallLen
       \/ \E r \in 0..(IF data = <<>> THEN 0 ELSE Len(data) - 1) :
             LET n == Len(data)
                 order == [p \in 1..n |-> At(data, (p + r) % n).key]
             IN Call("purge", NilKey, NilVal, Purge(Cache, order))

SpecStrict == InitStrict /\ [][NextStrict]_vars

\* ------------------------------------------------------- the run of TestLRU
\* TestLRU after its first TestCap calls of l.Add(i, i), which filled the cache, the
\* shuffle having left every entry where it was appended: the test's key i is key
\* i + 1 here (0 is the nil key), it sits in slot i with stamp i + 1.  The stamps of
\* this run lie past MaxCounter, the point where the scaled-down counter wraps, so
\* the run is never cut short by an overflow the int64 counter is far from.
InitQuality ==
    /\ size = TestCap
    /\ items = [k \in 1..TestCap |-> k - 1]
    /\ data = [i \in 1..TestCap |-> [lastUsed |-> i, key |-> i, value |-> i]]
    /\ counter = TestCap + 1
    /\ panicked = "none"
    /\ op = [name |-> "add", key |-> TestCap, arg |-> TestCap, again |-> FALSE]
    /\ ret = RetOk(FALSE)
    /\ cbs = <<>>
    /\ audit = {}
    /\ recency = <<>>
    /\ ledger = [addTrue |-> 0, removed |-> 0, callbacks |-> 0, purged |-> FALSE,
                 lastAdd |-> NilKey]
    /\ sc = NoSharded
    /\ threads = <<>>

\* Outcomes of the rng the run is checked for: rng.Intn hands out the same base at
\* every eviction of the run, any one whose probe window does not wrap (the base is
\* then the first slot that holds a key of the second half); rng.Shuffle is not
\* called again, the cache staying full
QualityBases(c) ==
    LET fresh == {i \in 0..(Len(c.data) - 1) : At(c.data, i).key > TestCap}
    IN IF fresh = {} THEN 0..(TestCap - randomProbes)
       ELSE {CHOOSE i \in fresh : \A j \in fresh : i <= j}

\* l.Add(i, i) for the next i
QualityAdd ==
    LET key == op.key + 1
    IN /\ key <= TestKeys
       /\ \E base \in QualityBases(Cache) :
             Call("add", key, key, Add(Cache, key, key, base, <<>>))

SpecQuality == InitQuality /\ [][QualityAdd]_vars

TypeOK ==
    /\ panicked \in {"none", "index", "overflow", "mucked"}
    /\ size \in 0..MaxCap
    /\ DOMAIN items \subseteq Keys


\* =================================================================== claims
\* The struct after the step, for properties of steps
CacheNext == [items |-> items', data |-> data', counter |-> counter', size |-> size']

\* What Contains / Peek answer for key k on struct c
Has(c, k) == Contains(c, k).ret.ok
Stored(c, k) == Peek(c, k).ret

\* C1: after any sequence of Add, Get, Peek, Contains, Remove and Purge on a cache
\* built with capacity C, Len() <= C.
C1_SizeBound == panicked = "none" => LenOf(Cache) <= size

\* C2: Add returns true if and only if that call removed a live entry, firing the
\* eviction callback for it; it returns false when the key was present or the new
\* entry went into a slot that held no live entry.
C2_AddTrueIffEvicted ==
    (op.name = "add" /\ panicked = "none") => (ret.ok <=> Len(cbs) > 0)

\* C3: the number of callback invocations so far equals the number of Adds that
\* returned true plus the number of Removes that returned true plus, for each
\* Purge, the number of entries live just before it.
C3_EvictionAccounting ==
    panicked = "none" => ledger.callbacks = ledger.addTrue + ledger.removed

\* C4: the callback runs exactly once per logical removal and never otherwise: each
\* invocation of a call carries a key that a caller had added and that was present
\* just before the call, with the value stored for it then, and every key that
\* goes from present to absent in a call gets exactly one invocation.
C4_CallbackPerRemoval ==
    [][ /\ \A p \in 1..Len(cbs') :
              /\ \E q \in 1..Len(recency) : recency[q] = cbs'[p][1]
              /\ Has(Cache, cbs'[p][1])
              /\ Stored(Cache, cbs'[p][1]) = RetVal(cbs'[p][2], TRUE)
              /\ ~Has(CacheNext, cbs'[p][1])
        /\ \A k \in Keys :
              (Has(Cache, k) /\ ~Has(CacheNext, k) /\ panicked' = "none")
                  => Cardinality({p \in 1..Len(cbs') : cbs'[p][1] = k}) = 1
      ]_vars

LiveSlots(d) == {i \in 0..(Len(d) - 1) : At(d, i).lastUsed # 0}

\* Position of key k in the order of touches (0 if never touched)
TouchPos(k) ==
    IF \E p \in 1..Len(recency) : recency[p] = k
    THEN CHOOSE p \in 1..Len(recency) : recency[p] = k
    ELSE 0

\* C6: the lastUsed stamps of live entries are pairwise distinct and >= 1, of two
\* live entries the one touched later by an Add or a Get hit has the larger stamp,
\* and after a Get hit on k the entry of k holds the largest stamp in the cache.
C6_StampsFollowTouches ==
    panicked = "none" =>
        /\ \A i \in LiveSlots(data) : At(data, i).lastUsed >= 1
        /\ \A i, j \in LiveSlots(data) :
              i # j => At(data, i).lastUsed # At(data, j).lastUsed
        /\ \A i, j \in LiveSlots(data) :
              TouchPos(At(data, i).key) < TouchPos(At(data, j).key)
                  => At(data, i).lastUsed < At(data, j).lastUsed
        /\ (op.name = "get" /\ ret.ok) =>
              /\ Has(Cache, op.key)
              /\ At(data, items[op.key]).key = op.key
              /\ \A j \in LiveSlots(data) :
                    At(data, j).lastUsed <= At(data, items[op.key]).lastUsed

\* C7: no sequence of Add, Get, Peek, Contains, Remove, Purge and Len makes a call
\* fail fatally other than by counter overflow, and after Add(k, v) returns the
\* key k is present with value v.
C7_NoFatalFailure ==
    /\ panicked \in {"none", "overflow"}
    /\ (op.name = "add" /\ panicked = "none")
           => Stored(Cache, op.key) = RetVal(op.arg, TRUE)

\* Number of distinct keys added so far, when only new keys are added
Added == Len(recency)

\* What C8 says of a cache of capacity size after n > size distinct keys were added
RolledOver ==
    /\ LenOf(Cache) = size
    /\ ledger.addTrue = Added - size
    /\ ledger.callbacks = Added - size
    /\ Has(Cache, ledger.lastAdd)

\* C8 as stated: from an empty cache of capacity C, using no Remove or Resize,
\* after adding n > C pairwise distinct keys: Len() = C, exactly n - C Adds returned
\* true (the first C returned false), the callback ran exactly n - C times and
\* the last key added is present.
C8_Rollover_Original ==
    panicked = "none" =>
        /\ (op.name = "add" /\ Added <= size) => ~ret.ok
        /\ Added > size => RolledOver

\* C8 amended: the same, using no Remove, no Resize and no Purge.
C8_Rollover ==
    (panicked = "none" /\ ~ledger.purged) =>
        /\ (op.name = "add" /\ Added <= size) => ~ret.ok
        /\ Added > size => RolledOver

\* More keys than the capacity were added, the last one evicting, with no Purge
C8_Witness ==
    /\ panicked = "none"
    /\ ~ledger.purged
    /\ Added > size
    /\ size > 1
    /\ op.name = "add"
    /\ ret.ok

\* C9: Add(k, v) followed immediately by Add(k, v2) leaves Peek(k) = (v2, true) and
\* Len() as it was before the second call; the second Add returns false and fires
\* no callback, and no other key's presence or value changes.
C9_AddReplace ==
    [][ (/\ op.name = "add" /\ panicked = "none"
         /\ op'.name = "add" /\ op'.key = op.key /\ panicked' = "none")
            => /\ ~ret'.ok
               /\ cbs' = <<>>
               /\ LenOf(CacheNext) = LenOf(Cache)
               /\ Stored(CacheNext, op'.key) = RetVal(op'.arg, TRUE)
               /\ \A k \in Keys \ {op'.key} :
                     /\ Has(CacheNext, k) = Has(Cache, k)
                     /\ Stored(CacheNext, k) = Stored(Cache, k)
      ]_vars

\* C10: Remove(k) returns true if and only if k was present; afterwards k is absent
\* for Contains, Peek and Get, Len() is one less on a hit and unchanged on a miss,
\* every other key keeps its presence and value, and an immediately repeated
\* Remove(k) returns false and fires no callback.
C10_Remove ==
    [][ (op'.name = "remove" /\ panicked' = "none")
            => /\ ret'.ok = Has(Cache, op'.key)
               /\ ~Has(CacheNext, op'.key)
               /\ ~Stored(CacheNext, op'.key).ok
               /\ ~Get(CacheNext, op'.key).ret.ok
               /\ LenOf(CacheNext) = LenOf(Cache) - (IF ret'.ok THEN 1 ELSE 0)
               /\ \A k \in Keys \ {op'.key} :
                     /\ Has(CacheNext, k) = Has(Cache, k)
                     /\ Stored(CacheNext, k) = Stored(Cache, k)
               /\ op'.again => (~ret'.ok /\ cbs' = <<>>)
      ]_vars

\* Number of callbacks of the step that carry key k
FiredFor(k) == Cardinality({p \in 1..Len(cbs') : cbs'[p][1] = k})

\* C11: Purge, from any reachable state, fires the callback exactly once for each
\* key present before the call, with the value stored for it, and for no other key;
\* afterwards Len() = 0 and Contains, Peek and Get report every key absent.
C11_Purge ==
    [][ op'.name = "purge"
            => /\ panicked' = "none"
               /\ \A k \in Keys :
                     IF Has(Cache, k)
                     THEN /\ FiredFor(k) = 1
                          /\ \E p \in 1..Len(cbs') : cbs'[p] = <<k, Stored(Cache, k).value>>
                     ELSE FiredFor(k) = 0
               /\ LenOf(CacheNext) = 0
               /\ \A k \in Keys :
                     /\ ~Has(CacheNext, k)
                     /\ ~Stored(CacheNext, k).ok
                     /\ ~Get(CacheNext, k).ret.ok
      ]_vars

\* The live entries of d that are among its m most recently used
Newest(d, m) ==
    {i \in LiveSlots(d) :
        Cardinality({j \in LiveSlots(d) : At(d, j).lastUsed > At(d, i).lastUsed}) < m}

\* C12: Resize(n) on a cache with L live entries evicts exactly the max(0, L - n)
\* entries with the smallest lastUsed, fires the callback once for each, returns that
\* count and leaves Len() = min(L, n), the survivors keeping their values; a Resize
\* that does not shrink below L evicts nothing and returns 0.
C12_Resize ==
    [][ op'.name = "resize"
            => LET n == op'.arg
                   L == Live(data)
                   d == IF L - n > 0 THEN L - n ELSE 0
               IN /\ panicked' = "none"
                  /\ ret'.n = d
                  /\ Len(cbs') = d
                  /\ \A i \in LiveSlots(data) \ Newest(data, n) :
                        FiredFor(At(data, i).key) = 1
                  /\ \A i \in Newest(data, n) :
                        /\ FiredFor(At(data, i).key) = 0
                        /\ Stored(CacheNext, At(data, i).key) = RetVal(At(data, i).value, TRUE)
                  /\ LenOf(CacheNext) = (IF L < n THEN L ELSE n)
      ]_vars

\* Contains, Peek and Get give the same found flag for key k on struct c (a Get that
\* stops on the counter overflow gives no flag)
FlagsAgree(c, k) ==
    /\ Peek(c, k).panic = "none"
    /\ Peek(c, k).ret.ok = Has(c, k)
    /\ \/ Get(c, k).panic = "overflow"
       \/ /\ Get(c, k).panic = "none"
          /\ Get(c, k).ret.ok = Has(c, k)

\* C19: in every reachable state and for every key k, Contains(k), the found flag of
\* Peek(k) and the found flag of Get(k) agree.
C19_FoundFlagsAgree ==
    panicked = "none" => \A k \in Keys : FlagsAgree(Cache, k)

\* C20: constructing the engine or the facade with size <= 0 returns an error and no
\* cache, and no other call returns an error; with size > 0 construction succeeds
\* with an empty cache: Len() = 0, the first stamp handed out is 1, capacity = size.
C20_Constructor ==
    /\ op.name \in Constructors =>
          IF op.arg <= 0
          THEN ret.err /\ Cache = NilLRU
          ELSE /\ ~ret.err
               /\ Cache # NilLRU
               /\ LenOf(Cache) = 0
               /\ data = <<>>
               /\ getCounter(Cache).n = 1
               /\ size = op.arg
    /\ ("err" \in DOMAIN ret /\ ret.err) => op.name \in Constructors

\* The facade's constructor has just turned away size 0
C20_Witness ==
    /\ op.name = "newWithEvict"
    /\ op.arg = 0
    /\ ret.err
    /\ Cache = NilLRU

\* C13: ContainsOrAdd(k, v) and PeekOrAdd(k, v) on a present key return found = true
\* and evicted = false (PeekOrAdd also the stored value) and change nothing: value,
\* stamp and everything else stay as they were; on an absent key they return
\* found = false and have exactly the effect and the evicted result of Add(k, v).
C13_OrAdd ==
    [][ op'.name \in {"containsOrAdd", "peekOrAdd"}
            => IF Has(Cache, op'.key)
               THEN /\ panicked' = "none"
                    /\ ret'.ok
                    /\ ~ret'.evicted
                    /\ op'.name = "peekOrAdd" => ret'.value = Stored(Cache, op'.key).value
                    /\ CacheNext = Cache
                    /\ cbs' = <<>>
               ELSE \E base \in BaseChoices(Cache) :
                      \E js \in (IF AddShuffles(Cache, op'.key) THEN ShuffleChoices(size)
                                 ELSE {<<>>}) :
                        LET a == Add(Cache, op'.key, op'.arg, base, js)
                        IN /\ CacheNext = a.c
                           /\ cbs' = a.cbs
                           /\ panicked' = a.panic
                           /\ a.panic = "none" => (~ret'.ok /\ ret'.evicted = a.ret.ok)
      ]_vars

\* The race is over: every goroutine has made its call and is out of it
RaceOver == \A t \in DOMAIN threads : threads[t].pc = "idle" /\ threads[t].left = 0

\* C14: when goroutines race to ContainsOrAdd / PeekOrAdd the same absent key with
\* different values and nothing else touches the key, exactly one call returns
\* found = false, the value stored is that call's, and every other call returns
\* found = true.
C14_OrAddAtomic ==
    RaceOver =>
       \E w \in DOMAIN threads :
          /\ threads[w].last.panic = "none"
          /\ ~threads[w].last.ret.ok
          /\ Stored(Lru(sc, threads[w].i), threads[w].key) = [ok |-> TRUE, value |-> w, n |-> 0]
          /\ \A u \in DOMAIN threads \ {w} :
                threads[u].last.panic = "none" /\ threads[u].last.ret.ok

\* Shards of the sharded cache (0-based)
ShardIds == 0..(shardCount - 1)

\* Goroutine t is between Lock and Unlock of shard i
Inside(t, i) == threads[t].pc \in {"call", "store"} /\ threads[t].i = i

\* C15: at most one goroutine is inside a given shard's LRU at any time: every keyed
\* operation (Peek and Contains included) holds the shard's mutex for its whole
\* engine call, and a shard's LRU changes only in a step of the goroutine holding
\* its mutex, by one whole engine call; so the calls on a shard take effect one
\* after the other, each goroutine's in its program order.
C15_ShardExclusive ==
    /\ [](\A i \in ShardIds :
            /\ Cardinality({t \in Threads : Inside(t, i)}) <= 1
            /\ \A t \in Threads : Inside(t, i) => Mu(sc, i) = t)
    /\ [][ \A i \in ShardIds :
             Lru(sc', i) # Lru(sc, i)
                => \E t \in Threads :
                      /\ Inside(t, i)
                      /\ Mu(sc, i) = t
                      /\ threads'[t] # threads[t]
                      /\ \A u \in Threads \ {t} : threads'[u] = threads[u]
         ]_vars

\* One goroutine is inside a shard while another waits in Lock for the same shard to Peek
C15_Witness ==
    \E t, u \in Threads :
        /\ t # u
        /\ Inside(t, threads[u].i)
        /\ threads[u].pc = "lock"
        /\ threads[u].name = "peek"

\* C16: the sharded cache is deadlock-free: no goroutine ever holds more than one shard
\* lock at once, and under fair scheduling every call that was started returns.
C16_DeadlockFree ==
    /\ [](\A t \in Threads : Cardinality({i \in ShardIds : Mu(sc, i) = t}) <= 1)
    /\ \A t \in Threads : (threads[t].pc # "idle") ~> (threads[t].pc = "idle")

\* C17: every lock is released on all exit paths, a panic included: a shard's mutex
\* is held only by a goroutine that is inside a call on that shard.
C17_LocksReleased ==
    \A i \in ShardIds : Mu(sc, i) # 0 => Inside(Mu(sc, i), i)

\* max(size, N) div N for the size the sharded cache was asked for
PerShard(c) == (IF c.asked < shardCount THEN shardCount ELSE c.asked) \div shardCount

\* The sum of shard.lru.Len() over the shards from shard i on
RECURSIVE TotalLen(_, _)
TotalLen(c, i) == IF i >= shardCount THEN 0 ELSE LenOf(Lru(c, i)) + TotalLen(c, i + 1)

\* C18: for a sharded cache asked for with capacity size and N shards, every shard
\* has capacity max(size, N) div N; after any sequence of operations every shard
\* holds at most that many entries and Len() <= (max(size, N) div N) * N, which is
\* below the size asked for by at most N - 1.
C18_ShardCapacity ==
    /\ \A i \in ShardIds :
          /\ Lru(sc, i).size = PerShard(sc)
          /\ LenOf(Lru(sc, i)) <= PerShard(sc)
    /\ sc.size = PerShard(sc) * shardCount
    /\ TotalLen(sc, 0) <= PerShard(sc) * shardCount
    /\ sc.asked >= shardCount =>
          (sc.asked - sc.size >= 0 /\ sc.asked - sc.size <= shardCount - 1)

\* C22: in every reachable state the index is exactly the set of live slots: every
\* mapping (k -> i) of items has i < len(data), data[i].key = k and
\* data[i].lastUsed # 0, and every slot with lastUsed # 0 is the target of exactly
\* one mapping (so len(items) is the number of live slots), the shuffle included.
C22_IndexExact ==
    panicked = "none" =>
        /\ \A k \in DOMAIN items :
              /\ InRange(data, items[k])
              /\ At(data, items[k]).key = k
              /\ At(data, items[k]).lastUsed # 0
        /\ \A i \in LiveSlots(data) : Cardinality({k \in DOMAIN items : items[k] = i}) = 1
        /\ LenOf(Cache) = Cardinality(LiveSlots(data))

\* Keys that are present before the step and absent after it
Evicted == {k \in Keys : Has(Cache, k) /\ ~Has(CacheNext, k)}

\* The step removed exactly one entry that was present and fired the callback for it
EvictsOne ==
    /\ Cardinality(Evicted) = 1
    /\ Len(cbs') = 1
    /\ cbs'[1][1] \in Evicted

\* The step removed no entry and fired no callback
EvictsNone == Evicted = {} /\ cbs' = <<>>

\* An Add of a key that was absent returns
AddsNew == op'.name = "add" /\ ~Has(Cache, op'.key) /\ panicked' = "none"

Examined(c, base) ==
    {base} \cup {probeOff(base, j, LenOf(c)) : j \in 1..(randomProbes - 1)}

\* C24: when an Add needs a slot in a full buffer, every slot index i in
\* [0, len(data)) is examined by removeOldest for some base the rng can draw, so
\* every hole left by Remove can be reused and no live entry is exempt from eviction.
C24_WindowCoversBuffer ==
    (panicked = "none" /\ Len(data) = size) =>
        \A i \in 0..(Len(data) - 1) :
            \E base \in BaseChoices(Cache) : LenOf(Cache) > 0 /\ i \in Examined(Cache, base)

\* The step is a call that stamps an entry: an Add, or a Get of a present key
Stamps == op'.name = "add" \/ (op'.name = "get" /\ Has(Cache, op'.key))

\* C27: the stamp counter never wraps silently: the Add or Get hit that would
\* increment it past the largest positive value fails fatally, so no slot ever
\* carries a negative stamp, a live slot carries a stamp >= 1 that the counter has
\* passed, and no stamp is issued twice (each is the counter's value, which only
\* grows); Get misses, Peek, Contains, Remove and Len do not advance the counter.
C27_CounterNeverWraps ==
    /\ [](panicked = "none" =>
            /\ counter >= 1
            /\ \A i \in 0..(Len(data) - 1) :
                  At(data, i).lastUsed >= 0 /\ At(data, i).lastUsed < counter
            /\ \A i, j \in LiveSlots(data) :
                  i # j => At(data, i).lastUsed # At(data, j).lastUsed)
    /\ [][ /\ (Stamps /\ counter = MaxCounter) => panicked' = "overflow"
           /\ panicked' = "overflow" => (Stamps /\ counter = MaxCounter)
           /\ (Stamps /\ panicked' = "none") =>
                 /\ counter' = counter + 1
                 /\ \E i \in LiveSlots(data') : At(data', i).lastUsed = counter
           /\ ~Stamps => counter' = counter
         ]_vars

\* The counter stood at its largest value and the Add or Get that came fell over
C27_Witness ==
    /\ panicked = "overflow"
    /\ op.name \in {"add", "get"}
    /\ counter < 0
    /\ Len(data) = size

\* C26: Resize's final consistency check never fails: from any reachable state,
\* holes left by Remove included, Resize(n) for any n >= 0 ends without the
\* "we mucked it up" panic, and an Add that follows it returns normally.
C26_ResizeCheckNeverFails ==
    /\ [](panicked # "mucked")
    /\ [][ op'.name = "resize" => panicked' = "none" ]_vars
    /\ [][ (op.name = "resize" /\ op'.name = "add") => panicked' \in {"none", "overflow"} ]_vars

\* The caches of capacity n in the Steady phase right after they were filled: keys
\* 1..n added in turn to a new cache, for every outcome of the fill-time shuffle
RECURSIVE FillFrom(_, _, _)
FillFrom(c, k, js) ==
    IF k > c.size THEN c ELSE FillFrom(Add(c, k, MaxVal, 0, js).c, k + 1, js)

FilledCaches == {FillFrom(NewLRU(n).c, 1, js) : n \in Caps, js \in ShuffleChoices(MaxCap)}

\* Resize(n) takes the full cache c to the Filling phase: it returns, the buffer is
\* shorter than the new capacity and the next Add of a new key evicts nothing
Refills(c, n) ==
    \E js \in ShuffleChoices(ResizeShuffleLen(c, n)) :
        LET r == Resize(c, n, js)
        IN /\ r.panic = "none"
           /\ Len(r.c.data) < n
           /\ \E key \in Keys \ DOMAIN r.c.items : \E base \in BaseChoices(r.c) :
                 LET a == Add(r.c, key, MaxVal, base, js)
                 IN a.panic = "none" /\ a.cbs = <<>>

InCallback == threads # <<>> /\ threads[1].pc = "onEvict"

\* C28: on a capacity-triggered eviction the callback for the victim runs after the
\* victim was removed from the index and its slot cleared, and before the incoming
\* entry is written into that slot: while the callback runs neither the victim key
\* nor the incoming key is present, and the callback runs exactly once per eviction.
C28_CallbackBetween ==
    /\ [](InCallback =>
            /\ Len(cbs) = 1
            /\ ~Has(Cache, cbs[1][1])
            /\ ~Has(Cache, op.key)
            /\ At(data, threads[1].i) = ZeroEntry)
    /\ [][ InCallback =>
              /\ cbs' = cbs
              /\ Stored(CacheNext, op.key) = RetVal(op.arg, TRUE)
              /\ items'[op.key] = threads[1].i
              /\ ret'.ok ]_vars
    /\ [][ (op'.name = "add" /\ ~InCallback /\ panicked' = "none")
              => Len(cbs') = Cardinality(Evicted) ]_vars

\* An Add into a full cache of capacity 2 is inside the callback for its victim
C28_Witness ==
    /\ InCallback
    /\ size = 2
    /\ LenOf(Cache) = 1
    /\ cbs # <<>>

\* Goroutine t is between taking and releasing the Cache's lock
InFacade(t) == threads[t].pc \in {"call", "store"}

Readers == {t \in DOMAIN threads : InFacade(t) /\ threads[t].name \in ReadOps}
Writers == {t \in DOMAIN threads : InFacade(t) /\ threads[t].name \notin ReadOps}

\* C29: Contains, Peek and Len run under the shared lock and every operation that
\* writes engine state (Add, Get, Remove, Purge, Resize, ContainsOrAdd, PeekOrAdd)
\* under the exclusive lock: in every interleaving no read-only operation overlaps
\* a writing one, no two writing operations overlap, and the engine changes only
\* in a step of the goroutine that holds the lock for writing.
C29_FacadeExclusive ==
    /\ [](/\ Cardinality(Writers) <= 1
          /\ Writers # {} => Readers = {}
          /\ \A t \in Writers : sc.lock.w = t /\ sc.lock.r = 0
          /\ Readers # {} => (sc.lock.w = 0 /\ sc.lock.r >= Cardinality(Readers)))
    /\ [][ sc'.lru # sc.lru
              => \E t \in Writers :
                    /\ sc.lock.w = t
                    /\ threads'[t] # threads[t]
                    /\ \A u \in DOMAIN threads \ {t} : threads'[u] = threads[u]
         ]_vars

\* A goroutine is inside Add holding the lock while another waits in RLock to Peek
C29_Witness ==
    \E t, u \in DOMAIN threads :
        /\ t # u
        /\ InFacade(t)
        /\ threads[t].name = "add"
        /\ threads[u].pc = "lock"
        /\ threads[u].name = "peek"
        /\ LenOf(sc.lru) > 0

\* TestLRU has added all its keys
QualityDone == op.name = "add" /\ op.key = TestKeys /\ panicked = "none"

\* Keys of the first half still present; keys of the second half missing
Stale == Cardinality({k \in 1..TestCap : Has(Cache, k)})
DiedEarly == Cardinality({k \in (TestCap + 1)..TestKeys : ~Has(Cache, k)})

ByStamp ==
    LET live == {i \in 1..Len(data) : data[i].lastUsed # 0}
        rank(i) == Cardinality({j \in live : data[j].lastUsed < data[i].lastUsed}) + 1
    IN [q \in 1..Cardinality(live) |->
          LET i == CHOOSE i \in live : rank(i) = q
          IN [key |-> data[i].key, value |-> data[i].value]]

\* The (key, value) pairs a sequence of callbacks holds
Pairs(s) == {s[p] : p \in 1..Len(s)}

\* C25: for capacity C <= 8 (the probe count) and any sequence of add, get, peek,
\* contains and purge with no remove and no resize, the cache behaves as a strict
\* LRU cache of capacity C given the same calls, whatever the random choices: every
\* call that returns hands back what the strict LRU hands back and fires the same
\* callbacks (Purge's in any order), so an add of a new key to a full cache evicts
\* exactly the key least recently touched by add or a get hit; and afterwards the
\* cache holds the strict LRU's entries, its stamps in the strict LRU's order.
C25_StrictUpToProbes ==
    [][ panicked' = "none" =>
          LET s == StrictLRU(op'.name, recency, op'.key, op'.arg, size)
          IN /\ size <= randomProbes
             /\ ret' = s.ret
             /\ IF op'.name = "purge"
                THEN Len(cbs') = Len(s.cbs) /\ Pairs(cbs') = Pairs(s.cbs)
                ELSE cbs' = s.cbs
             /\ ByStamp' = recency'
             /\ DOMAIN items' = {recency'[p].key : p \in 1..Len(recency')} ]_vars

\* An add to a full cache of capacity 8 has evicted the least recently touched key
C25_Witness ==
    /\ audit = {"strict"}
    /\ size = randomProbes
    /\ op.name = "add"
    /\ panicked = "none"
    /\ ret.ok
    /\ cbs # <<>>
    /\ Len(recency) = randomProbes

====
